---- MODULE Spec2Model ----
(***************************************************************************)
(* PO vs Invoice comparator (src/app.py).                                  *)
(*                                                                         *)
(* Python values that reach compare_structures are modelled as tagged      *)
(* records; text is a sequence of one-character strings, so that str(),    *)
(* strip(), lower() and SequenceMatcher.ratio() are computed, not assumed. *)
(***************************************************************************)
EXTENDS Integers, Sequences, FiniteSets, TLC

\* ------------------------------------------------------------------ bounds

\* Longest list of line items in a structured record of the matching family.
MaxItems == 2

\* ------------------------------------------------------- program constants

\* The slider of the sidebar: integer percent, 50..95, default 70.
MinThreshold == 50
MaxThreshold == 95
DefaultThreshold == 70

\* ------------------------------------------------------------ Python values

\* A JSON string.
PyStr(chars) == [tag |-> "str", s |-> chars, n |-> 0]
\* A JSON integer (non-negative).
PyInt(k) == [tag |-> "int", s |-> <<>>, n |-> k]
\* A JSON number with a fraction, held in tenths (50 is 5.0).
PyFloat(tenths) == [tag |-> "float", s |-> <<>>, n |-> tenths]
\* JSON null.
PyNone == [tag |-> "none", s |-> <<>>, n |-> 0]
\* The default of dict.get(key, ""): the empty string.
EmptyStr == PyStr(<<>>)

DigitChars == <<"0", "1", "2", "3", "4", "5", "6", "7", "8", "9">>

RECURSIVE Digits(_)
\* The decimal digits of a non-negative integer.
Digits(k) ==
    IF k < 10 THEN <<DigitChars[k + 1]>>
    ELSE Digits(k \div 10) \o <<DigitChars[(k % 10) + 1]>>

\* str(v): a string is itself, an int its digits, a float its shortest
\* repr (one fractional digit here), None the text "None".
Str(v) ==
    CASE v.tag = "str" -> v.s
      [] v.tag = "int" -> Digits(v.n)
      [] v.tag = "float" -> Digits(v.n \div 10) \o <<".">> \o Digits(v.n % 10)
      [] OTHER -> <<"N", "o", "n", "e">>

Whitespace == {" ", "\t", "\n"}

RECURSIVE LStrip(_)
LStrip(s) ==
    IF s # <<>> /\ Head(s) \in Whitespace THEN LStrip(Tail(s)) ELSE s

RECURSIVE RStrip(_)
RStrip(s) ==
    IF s # <<>> /\ s[Len(s)] \in Whitespace
    THEN RStrip(SubSeq(s, 1, Len(s) - 1))
    ELSE s

\* str.strip()
Strip(s) == RStrip(LStrip(s))

LowerChar(c) ==
    CASE c = "A" -> "a"
      [] c = "B" -> "b"
      [] c = "C" -> "c"
      [] OTHER -> c

\* str.lower()
Lower(s) == [i \in 1..Len(s) |-> LowerChar(s[i])]

\* dict.get(key, default)
Get(d, key, default) == IF key \in DOMAIN d THEN d[key] ELSE default

\* Truthiness of a dict: a non-empty one.
Truthy(d) == DOMAIN d # {}

\* --------------------------------------------- difflib.SequenceMatcher.ratio

\* find_longest_match(alo, ahi, blo, bhi) without junk: the longest block
\* a[i..i+k-1] = b[j..j+k-1] inside the two windows (1-based, inclusive),
\* the one starting earliest in a, and of those the one earliest in b.
\* <<0, 0, 0>> when no element matches.
FindLongestMatch(a, b, alo, ahi, blo, bhi) ==
    LET Blocks == {t \in (alo..ahi) \X (blo..bhi) \X (1..(ahi - alo + 1)) :
                      /\ t[1] + t[3] - 1 <= ahi
                      /\ t[2] + t[3] - 1 <= bhi
                      /\ \A d \in 0..(t[3] - 1) : a[t[1] + d] = b[t[2] + d]}
    IN IF Blocks = {} THEN <<0, 0, 0>>
       ELSE CHOOSE t \in Blocks :
              \A u \in Blocks :
                 \/ t[3] > u[3]
                 \/ t[3] = u[3] /\ t[1] < u[1]
                 \/ t[3] = u[3] /\ t[1] = u[1] /\ t[2] <= u[2]

RECURSIVE MatchCount(_, _, _, _, _, _)
\* The total size of get_matching_blocks(): the longest block, then the
\* same to its left and to its right.
MatchCount(a, b, alo, ahi, blo, bhi) ==
    IF alo > ahi \/ blo > bhi THEN 0
    ELSE LET m == FindLongestMatch(a, b, alo, ahi, blo, bhi)
         IN IF m[3] = 0 THEN 0
            ELSE m[3]
                 + MatchCount(a, b, alo, m[1] - 1, blo, m[2] - 1)
                 + MatchCount(a, b, m[1] + m[3], ahi, m[2] + m[3], bhi)

\* A score is the exact fraction num/den of the float the code computes.
\* Both sides of every comparison in the code are correctly rounded
\* quotients of small integers, so comparing the fractions decides them.
Score(num, den) == [num |-> num, den |-> den]
ZeroScore == Score(0, 1)
ScoreLess(x, y) == x.num * y.den < y.num * x.den

\* ratio(): 2.0 * matches / (len(a) + len(b)), and 1.0 for two empty texts.
Ratio(a, b) ==
    IF Len(a) + Len(b) = 0 THEN Score(1, 1)
    ELSE Score(2 * MatchCount(a, b, 1, Len(a), 1, Len(b)), Len(a) + Len(b))

\* similar(a, b) on two description texts.
Similar(a, b) == Ratio(Strip(Lower(a)), Strip(Lower(b)))

\* round(score, 2) in hundredths; a tie (only k/8 at these lengths, exact
\* in binary) goes to the even neighbour.
Round2(x) ==
    LET q == (100 * x.num) \div x.den
        r == (100 * x.num) % x.den
    IN IF 2 * r < x.den THEN q
       ELSE IF 2 * r > x.den THEN q + 1
       ELSE IF q % 2 = 0 THEN q ELSE q + 1

\* ------------------------------------------------------------ program state

VARIABLES
    pc,             \* position of the script run
    gemini_key,     \* GEMINI_KEY is set
    po_file,        \* a Purchase Order PDF is uploaded
    inv_file,       \* an Invoice PDF is uploaded
    threshold,      \* the slider, in percent
    po_text,        \* extract_text_from_pdf(po_file): "unset", "empty", "text"
    inv_text,
    po_struct,      \* first result of call_gemini_for_structure
    inv_struct,
    po_err,         \* second result: "" for None
    inv_err,
    header_checks,  \* compare_structures: the list of header tuples
    inv_used,       \* compare_structures: the set of claimed invoice indexes
    rows,           \* compare_structures: the list of item rows
    po_n,           \* compare_structures: PO items processed by the outer loop
    row_inv         \* per row, the invoice index it shows (0: none)

vars == <<pc, gemini_key, po_file, inv_file, threshold, po_text, inv_text,
          po_struct, inv_struct, po_err, inv_err, header_checks, inv_used,
          rows, po_n, row_inv>>

\* A parsed response: None, a JSON object, or another truthy JSON value
\* (an array such as [1]).
NoStruct == [kind |-> "none", d |-> <<>>]
Dict(d) == [kind |-> "dict", d |-> d]
NonDict == [kind |-> "nondict", d |-> <<>>]

\* `x or {}`
OrEmptyDict(x) ==
    IF x.kind = "none" \/ (x.kind = "dict" /\ ~Truthy(x.d)) THEN Dict(<<>>)
    ELSE x

\* The arguments compare_structures is called with.
PoArg == OrEmptyDict(po_struct)
InvArg == OrEmptyDict(inv_struct)

\* ---------------------------------------------------------- compare_structures

HeaderFields ==
    << <<"Document Number", "number">>, <<"Vendor", "vendor">>,
       <<"Date", "date">>, <<"Grand Total", "grand_total">> >>

\* `struct.get(key, "") if struct else ""`
HeaderValue(struct, key) ==
    IF Truthy(struct) THEN Get(struct, key, EmptyStr) ELSE EmptyStr

\* HeaderStatus without the two strip() calls.
HeaderStatusUntrimmed(po_val, inv_val) ==
    IF Str(po_val) # <<>> /\ Str(inv_val) # <<>> /\ Str(po_val) = Str(inv_val)
    THEN "Match" ELSE "Mismatch"

HeaderStatus(po_val, inv_val) ==
    IF /\ Strip(Str(po_val)) # <<>>
       /\ Strip(Str(inv_val)) # <<>>
       /\ Strip(Str(po_val)) = Strip(Str(inv_val))
    THEN "Match" ELSE "Mismatch"

HeaderCheck(po, inv, i) ==
    LET po_val == HeaderValue(po, HeaderFields[i][2])
        inv_val == HeaderValue(inv, HeaderFields[i][2])
    IN [label |-> HeaderFields[i][1], po_val |-> po_val, inv_val |-> inv_val,
        status |-> HeaderStatus(po_val, inv_val)]

\* `struct.get("items", []) if struct else []`
ItemsOf(struct) == IF Truthy(struct) THEN Get(struct, "items", <<>>) ELSE <<>>

PoItems == ItemsOf(PoArg.d)
InvItems == ItemsOf(InvArg.d)

Description(it) == Get(it, "description", EmptyStr)

\* Better with `>=`: the last of several equal scores wins.
BetterOrEqual(score, best_score) == ~ScoreLess(score, best_score)

\* `score > best_score`
Better(score, best_score) == ScoreLess(best_score, score)

RECURSIVE BestMatchStopsAtClaimed(_, _, _, _, _)
\* BestMatch with `break` for `continue`: the scan ends at the first
\* claimed index.
BestMatchStopsAtClaimed(po_it, inv_items, used, idx, best) ==
    IF idx > Len(inv_items) \/ idx \in used THEN best
    ELSE LET score == Similar(Description(po_it).s, Description(inv_items[idx]).s)
         IN IF ScoreLess(best.best_score, score)
            THEN BestMatchStopsAtClaimed(po_it, inv_items, used, idx + 1,
                                         [best_score |-> score, best_idx |-> idx])
            ELSE BestMatchStopsAtClaimed(po_it, inv_items, used, idx + 1, best)

RECURSIVE BestMatch(_, _, _, _, _)
\* The inner loop from index idx on: claimed indexes are skipped, and a
\* strictly better score replaces the best so far. Indexes are 1-based
\* here; best_idx 0 is None.
BestMatch(po_it, inv_items, used, idx, best) ==
    IF idx > Len(inv_items) THEN best
    ELSE IF idx \in used THEN BestMatch(po_it, inv_items, used, idx + 1, best)
    ELSE LET score == Similar(Description(po_it).s, Description(inv_items[idx]).s)
         IN IF Better(score, best.best_score)
            THEN BestMatch(po_it, inv_items, used, idx + 1,
                           [best_score |-> score, best_idx |-> idx])
            ELSE BestMatch(po_it, inv_items, used, idx + 1, best)

\* AcceptMatch with the comparison turned round.
AcceptMatchBelow(best_score, t) == ~ScoreLess(Score(t, 100), best_score)

\* `best_score >= item_match_threshold`, the threshold being t / 100.0
AcceptMatch(best_score, t) == ~ScoreLess(best_score, Score(t, 100))

\* MatchStep without inv_used.add(best_idx).
MatchStepForgetsClaim(po_it, inv_items, used, t) ==
    LET best == BestMatch(po_it, inv_items, used, 1,
                          [best_score |-> ZeroScore, best_idx |-> 0])
        ok == ~ScoreLess(best.best_score, Score(t, 100))
    IN [best_score |-> best.best_score,
        best_idx |-> best.best_idx,
        accepted |-> ok,
        inv_used |-> used,
        inv_it |-> IF ok /\ best.best_idx # 0 THEN inv_items[best.best_idx]
                   ELSE <<>>]

\* One PO item against the invoice items: the scan, then the decision.
\* inv_it is the empty dict when it is None in the code (both are falsy).
MatchStep(po_it, inv_items, used, t) ==
    LET best == BestMatch(po_it, inv_items, used, 1,
                          [best_score |-> ZeroScore, best_idx |-> 0])
        ok == AcceptMatch(best.best_score, t)
    IN [best_score |-> best.best_score,
        best_idx |-> best.best_idx,
        accepted |-> ok,
        inv_used |-> IF ok THEN used \cup {best.best_idx} ELSE used,
        inv_it |-> IF ok /\ best.best_idx # 0 THEN inv_items[best.best_idx]
                   ELSE <<>>]

\* str.lower() of a description that is not a string raises; similar() is
\* called once per unclaimed invoice item.
SimilarRaises(po_it, inv_items, used) ==
    \E idx \in 1..Len(inv_items) :
        /\ idx \notin used
        /\ \/ Description(po_it).tag # "str"
           \/ Description(inv_items[idx]).tag # "str"

\* `inv_it.get(key, "") if inv_it else ""`
InvField(inv_it, key) ==
    IF Truthy(inv_it) THEN Get(inv_it, key, EmptyStr) ELSE EmptyStr

\* ItemStatus without the comparison of unit_price.
ItemStatusSkipsPrice(po_it, inv_it) ==
    IF \/ Str(Get(po_it, "qty", EmptyStr)) # Str(InvField(inv_it, "qty"))
       \/ Str(Get(po_it, "total", EmptyStr)) # Str(InvField(inv_it, "total"))
    THEN "Mismatch" ELSE "Match"

ItemStatus(po_it, inv_it) ==
    IF \/ Str(Get(po_it, "qty", EmptyStr)) # Str(InvField(inv_it, "qty"))
       \/ Str(Get(po_it, "unit_price", EmptyStr)) # Str(InvField(inv_it, "unit_price"))
       \/ Str(Get(po_it, "total", EmptyStr)) # Str(InvField(inv_it, "total"))
    THEN "Mismatch" ELSE "Match"

ItemRow(po_it, inv_it, best_score) ==
    [field |-> "Item",
     po_value |-> Description(po_it),
     inv_value |-> InvField(inv_it, "description"),
     po_qty |-> Get(po_it, "qty", EmptyStr),
     inv_qty |-> InvField(inv_it, "qty"),
     po_price |-> Get(po_it, "unit_price", EmptyStr),
     inv_price |-> InvField(inv_it, "unit_price"),
     po_total |-> Get(po_it, "total", EmptyStr),
     inv_total |-> InvField(inv_it, "total"),
     status |-> ItemStatus(po_it, inv_it),
     match_score |-> Round2(best_score)]

UnmatchedRow(inv_it) ==
    [field |-> "Item (Unmatched Invoice)",
     po_value |-> EmptyStr,
     inv_value |-> Description(inv_it),
     po_qty |-> EmptyStr,
     inv_qty |-> Get(inv_it, "qty", EmptyStr),
     po_price |-> EmptyStr,
     inv_price |-> Get(inv_it, "unit_price", EmptyStr),
     po_total |-> EmptyStr,
     inv_total |-> Get(inv_it, "total", EmptyStr),
     status |-> "Mismatch",
     match_score |-> 0]

\* UnmatchedIndexes without `if idx not in inv_used`.
UnmatchedIndexesAll(inv_items, used, idx) == [i \in 1..(Len(inv_items) - idx + 1) |-> idx + i - 1]

RECURSIVE UnmatchedIndexes(_, _, _)
\* The last loop: the indexes not in inv_used, in list order.
UnmatchedIndexes(inv_items, used, idx) ==
    IF idx > Len(inv_items) THEN <<>>
    ELSE IF idx \notin used
         THEN <<idx>> \o UnmatchedIndexes(inv_items, used, idx + 1)
         ELSE UnmatchedIndexes(inv_items, used, idx + 1)

RECURSIVE Pairing(_, _, _, _, _)
\* The outer loop as a function of its inputs: for the PO items from k on,
\* the invoice index each one claims (0: none).
Pairing(po_items, inv_items, t, k, used) ==
    IF k > Len(po_items) THEN <<>>
    ELSE LET m == MatchStep(po_items[k], inv_items, used, t)
         IN <<IF m.accepted THEN m.best_idx ELSE 0>>
            \o Pairing(po_items, inv_items, t, k + 1, m.inv_used)

\* ------------------------------------------------------------------ actions

CompareLocals == <<header_checks, inv_used, rows, po_n, row_inv>>
Inputs == <<gemini_key, po_file, inv_file, threshold>>
Parsed == <<po_text, inv_text, po_struct, inv_struct, po_err, inv_err>>

\* The header loop and the set-up of the item loop. A parsed value that
\* is not a dict has no get(): the call raises.
HeaderChecks ==
    /\ pc = "parsed"
    /\ IF PoArg.kind # "dict" \/ InvArg.kind # "dict"
       THEN /\ pc' = "crashed"
            /\ UNCHANGED CompareLocals
       ELSE /\ header_checks' = [i \in 1..Len(HeaderFields) |->
                                    HeaderCheck(PoArg.d, InvArg.d, i)]
            /\ inv_used' = {}
            /\ rows' = <<>>
            /\ po_n' = 0
            /\ row_inv' = <<>>
            /\ pc' = "items"
    /\ UNCHANGED <<Inputs, Parsed>>

\* One iteration of `for po_it in po_items`.
MatchPoItem ==
    /\ pc = "items"
    /\ po_n < Len(PoItems)
    /\ LET po_it == PoItems[po_n + 1] IN
         IF SimilarRaises(po_it, InvItems, inv_used)
         THEN /\ pc' = "crashed"
              /\ UNCHANGED CompareLocals
         ELSE LET m == MatchStep(po_it, InvItems, inv_used, threshold) IN
              /\ inv_used' = m.inv_used
              /\ rows' = Append(rows, ItemRow(po_it, m.inv_it, m.best_score))
              /\ row_inv' = Append(row_inv, IF m.accepted THEN m.best_idx ELSE 0)
              /\ po_n' = po_n + 1
              /\ pc' = pc
              /\ UNCHANGED header_checks
    /\ UNCHANGED <<Inputs, Parsed>>

\* The loop over the invoice items never claimed, and the return.
AppendUnmatched ==
    /\ pc = "items"
    /\ po_n = Len(PoItems)
    /\ LET left == UnmatchedIndexes(InvItems, inv_used, 1) IN
         /\ rows' = rows \o [i \in 1..Len(left) |-> UnmatchedRow(InvItems[left[i]])]
         /\ row_inv' = row_inv \o left
    /\ pc' = "returned"
    /\ UNCHANGED <<Inputs, Parsed, header_checks, inv_used, po_n>>

\* -------------------------------------------------- the Compare button's run

\* `if st.button("Compare PO <-> Invoice")`: without both files the run
\* shows an error and ends; with both, the two texts are extracted. An
\* unreadable PDF gives the empty text.
PressCompare ==
    /\ pc = "idle"
    /\ IF ~po_file \/ ~inv_file
       THEN /\ pc' = "rejected"
            /\ UNCHANGED <<po_text, inv_text>>
       ELSE /\ pc' = "extracted"
            /\ po_text' \in {"empty", "text"}
            /\ inv_text' \in {"empty", "text"}
    /\ UNCHANGED <<Inputs, po_struct, inv_struct, po_err, inv_err, CompareLocals>>

\* Line items the model's response may hold.
Nums == [qty |-> PyInt(10), unit_price |-> PyFloat(50), total |-> PyFloat(500)]
Item(desc, nums) == [description |-> desc] @@ nums

\* What json.loads may return for a response.
Responses ==
    { Dict(<<>>),
      Dict([number |-> PyStr(<<"7">>), vendor |-> PyStr(<<"x">>),
            items |-> <<Item(PyStr(<<"a">>), Nums)>>]),
      Dict([number |-> PyStr(<<"7">>), vendor |-> PyStr(<<"y">>),
            items |-> <<Item(PyStr(<<"a", "b">>), Nums), Item(PyStr(<<"a">>), Nums)>>]),
      Dict([number |-> PyInt(7), items |-> <<Item(PyNone, Nums)>>]),
      NonDict }

\* call_gemini_for_structure: (parsed, None) or (None, message).
GeminiResults ==
    IF ~gemini_key THEN {<<NoStruct, "No API key configured.">>}
    ELSE {<<NoStruct, "AI returned invalid JSON.">>,
          <<NoStruct, "Error calling Gemini">>}
         \cup {<<r, "">> : r \in Responses}

CallGeminiPO ==
    /\ pc = "extracted"
    /\ \E res \in GeminiResults :
          /\ po_struct' = res[1]
          /\ po_err' = res[2]
    /\ pc' = "po_parsed"
    /\ UNCHANGED <<Inputs, po_text, inv_text, inv_struct, inv_err, CompareLocals>>

CallGeminiInv ==
    /\ pc = "po_parsed"
    /\ \E res \in GeminiResults :
          /\ inv_struct' = res[1]
          /\ inv_err' = res[2]
    /\ pc' = "parsed"
    /\ UNCHANGED <<Inputs, po_text, inv_text, po_struct, po_err, CompareLocals>>

\* The two tables and st.success("Comparison complete.").
Render ==
    /\ pc = "returned"
    /\ pc' = "done"
    /\ UNCHANGED <<Inputs, Parsed, CompareLocals>>

\* Slider positions: the two ends, the default and one between.
Thresholds == {MinThreshold, 60, DefaultThreshold, MaxThreshold}

NoLocals ==
    /\ header_checks = <<>>
    /\ inv_used = {}
    /\ rows = <<>>
    /\ po_n = 0
    /\ row_inv = <<>>

Init ==
    /\ pc = "idle"
    /\ gemini_key \in BOOLEAN
    /\ po_file \in BOOLEAN
    /\ inv_file \in BOOLEAN
    /\ threshold \in Thresholds
    /\ po_text = "unset"
    /\ inv_text = "unset"
    /\ po_struct = NoStruct
    /\ inv_struct = NoStruct
    /\ po_err = ""
    /\ inv_err = ""
    /\ NoLocals

Compare == HeaderChecks \/ MatchPoItem \/ AppendUnmatched

Next == PressCompare \/ CallGeminiPO \/ CallGeminiInv \/ Compare \/ Render

Spec == Init /\ [][Next]_vars

\* ------------------------------------------ compare_structures on its inputs

Absent == [tag |-> "absent", s |-> <<>>, n |-> 0]

\* A dict from a choice per key, Absent leaving the key out.
MkDict(f) == [k \in {x \in DOMAIN f : f[x] # Absent} |-> f[k]]

HeaderKeys == {"number", "vendor", "date", "grand_total"}

\* Header values: missing, empty, blank, padded, numbers and their texts.
HeaderVals ==
    { Absent, EmptyStr, PyStr(<<" ">>), PyStr(<<"7">>), PyStr(<<" ", "7", " ">>),
      PyInt(7), PyFloat(70), PyStr(<<"7", ".", "0">>), PyStr(<<"7", ".", "0", "0">>),
      PyNone }
OtherVals == {Absent, PyStr(<<"x">>)}

\* Records that differ in their header fields: one field takes every
\* header value, the others are all present or all missing.
HeaderDicts(key) ==
    {MkDict([k \in HeaderKeys |-> IF k = key THEN v ELSE o]) :
        v \in HeaderVals, o \in OtherVals}

NumsText ==
    [qty |-> PyStr(<<"1", "0">>), unit_price |-> PyStr(<<"5", ".", "0">>),
     total |-> PyStr(<<"5", "0", ".", "0">>)]
NumsPadded ==
    [qty |-> PyInt(10), unit_price |-> PyStr(<<"5", ".", "0", "0">>),
     total |-> PyFloat(500)]
NumsEmpty == [qty |-> EmptyStr]
NumsInt == [qty |-> PyInt(10), unit_price |-> PyInt(5), total |-> PyInt(50)]

\* Items that differ in their descriptions.
MatchPool ==
    { Item(PyStr(<<"a">>), Nums),
      Item(PyStr(<<"a", "b">>), Nums),
      Item(PyStr(<<"a", "c">>), NumsText),
      Item(PyStr(<<" ", "A", "B">>), NumsPadded) }

\* Items that differ in their quantities, prices and totals.
FieldPool ==
    { MkDict([description |-> d] @@ n) :
        d \in {Absent, PyStr(<<"a">>), PyStr(<<"A", " ">>), PyStr(<<"b">>)},
        n \in {Nums, NumsText, NumsPadded, NumsEmpty, NumsInt, <<>>} }

Lists(pool, n) == UNION {[1..k -> pool] : k \in 0..n}

WithItems(its) == IF its = <<>> THEN <<>> ELSE [items |-> its]

InitCompare ==
    /\ pc = "parsed"
    /\ gemini_key = TRUE
    /\ po_file = TRUE
    /\ inv_file = TRUE
    /\ po_text = "text"
    /\ inv_text = "text"
    /\ po_err = ""
    /\ inv_err = ""
    /\ NoLocals
    /\ \/ /\ threshold = DefaultThreshold
          /\ \E key \in HeaderKeys :
                /\ po_struct \in {Dict(d) : d \in HeaderDicts(key)}
                /\ inv_struct \in {Dict(d) : d \in HeaderDicts(key)}
       \/ /\ threshold \in Thresholds
          /\ po_struct \in {Dict(WithItems(l)) : l \in Lists(MatchPool, MaxItems)}
          /\ inv_struct \in {Dict(WithItems(l)) : l \in Lists(MatchPool, MaxItems)}
       \/ /\ threshold \in Thresholds
          /\ po_struct \in {Dict(WithItems(l)) : l \in Lists(FieldPool, 1)}
          /\ inv_struct \in {Dict(WithItems(l)) : l \in Lists(FieldPool, 1)}

SpecCompare == InitCompare /\ [][Compare]_vars

\* ------------------------------------------------------------------ claims

\* The locals of compare_structures hold a value.
InCompare == pc \in {"items", "returned", "done"}
HasReturned == pc \in {"returned", "done"}

\* The text a record's field compares as: str() of the value, of "" when
\* the key is missing.
TextOf(d, key) == IF key \in DOMAIN d THEN Str(d[key]) ELSE <<>>

NumberKeys == {"qty", "unit_price", "total"}

\* score >= t / 100
AtLeast(score, t) == score.num * 100 >= t * score.den

\* The similarity of PO item k and invoice item i.
Sim(k, i) == Similar(TextOf(PoItems[k], "description"), TextOf(InvItems[i], "description"))

\* The invoice indexes not claimed by the PO items before the k-th.
UnclaimedBefore(k) == (1..Len(InvItems)) \ {row_inv[j] : j \in 1..(k - 1)}

\* The unclaimed invoice indexes with their scores for PO item k.
ScoresOf(k) == {<<i, Sim(k, i)>> : i \in UnclaimedBefore(k)}

\* The unclaimed invoice indexes with the highest score for PO item k.
TopOf(k) ==
    LET scored == ScoresOf(k)
    IN {p[1] : p \in {q \in scored : \A r \in scored : ~ScoreLess(q[2], r[2])}}

\* Some unclaimed invoice item scores at or above the threshold for PO
\* item k.
Reaches(k) == \E p \in ScoresOf(k) : AtLeast(p[2], threshold)

Lowest(S) == CHOOSE x \in S : \A y \in S : x <= y

\* The PO items that got an invoice item.
MatchedSet(pairing) == {k \in 1..Len(pairing) : pairing[k] # 0}

\* The invoice indexes claimed before the k-th PO item in a pairing.
ClaimedBefore(pairing, k) == {pairing[j] : j \in 1..(k - 1)} \ {0}

\* C1: a header check is Match exactly when the PO value and the invoice
\* value, as text and trimmed, are both non-empty and equal; in every other
\* case, a missing field included, it is Mismatch.
HeaderMatchIffNonEmptyEqual ==
    InCompare =>
        /\ Len(header_checks) = 4
        /\ \A i \in 1..4 :
              LET po == Strip(TextOf(PoArg.d, HeaderFields[i][2]))
                  inv == Strip(TextOf(InvArg.d, HeaderFields[i][2]))
              IN header_checks[i].status =
                    IF po # <<>> /\ inv # <<>> /\ po = inv THEN "Match" ELSE "Mismatch"

\* C1 witness: a field matched on values that differ before str() and
\* strip(), beside a field that is empty on both sides.
HeaderMatchWitness ==
    /\ InCompare
    /\ \E i, j \in 1..4 :
          /\ header_checks[i].status = "Match"
          /\ header_checks[i].po_val # header_checks[i].inv_val
          /\ header_checks[j].status = "Mismatch"
          /\ header_checks[j].po_val = EmptyStr
          /\ header_checks[j].inv_val = EmptyStr

\* C2: no header check and no item row is Match when one of the values it
\* compares is missing or empty on either side.
MissingNeverMatch ==
    InCompare =>
        /\ \A i \in 1..Len(header_checks) :
              header_checks[i].status = "Match" =>
                 /\ Strip(Str(header_checks[i].po_val)) # <<>>
                 /\ Strip(Str(header_checks[i].inv_val)) # <<>>
        /\ \A r \in 1..Len(rows) :
              rows[r].status = "Match" =>
                 /\ Str(rows[r].po_qty) # <<>> /\ Str(rows[r].inv_qty) # <<>>
                 /\ Str(rows[r].po_price) # <<>> /\ Str(rows[r].inv_price) # <<>>
                 /\ Str(rows[r].po_total) # <<>> /\ Str(rows[r].inv_total) # <<>>

\* C3: a PO item with no unclaimed invoice item at or above the threshold
\* gets a row with empty invoice fields, status Mismatch and score 0.0,
\* and claims nothing.
UnmatchedPoRowIsEmptyMismatchZero ==
    InCompare =>
        \A k \in 1..po_n :
            ~Reaches(k) =>
                /\ row_inv[k] = 0
                /\ rows[k].inv_value = EmptyStr
                /\ rows[k].inv_qty = EmptyStr
                /\ rows[k].inv_price = EmptyStr
                /\ rows[k].inv_total = EmptyStr
                /\ rows[k].status = "Mismatch"
                /\ rows[k].match_score = 0

\* C4, as claimed: a PO item matched at the threshold is matched at every
\* lower threshold, the two records being the same.
ThresholdMonotone ==
    HasReturned =>
        \A t1 \in Thresholds :
            t1 < threshold =>
                \A k \in 1..Len(PoItems) :
                    row_inv[k] # 0 => Pairing(PoItems, InvItems, t1, 1, {})[k] # 0

\* C4, amended: a PO item matched at the threshold is matched at every
\* lower threshold at which the PO items before it claimed the same
\* invoice items.
ThresholdMonotoneAfterSameClaims ==
    HasReturned =>
        \A t1 \in Thresholds :
            t1 < threshold =>
                LET low == Pairing(PoItems, InvItems, t1, 1, {})
                IN \A k \in 1..Len(PoItems) :
                      (row_inv[k] # 0 /\ ClaimedBefore(low, k) = ClaimedBefore(row_inv, k))
                          => low[k] # 0

\* C4 witness: a second PO item matched at both thresholds after the same
\* claim, beside a PO item only the lower threshold matches.
ThresholdMonotoneWitness ==
    /\ HasReturned
    /\ \E t1 \in Thresholds :
          /\ t1 < threshold
          /\ LET low == Pairing(PoItems, InvItems, t1, 1, {})
             IN /\ \E k \in 2..Len(PoItems) :
                      /\ row_inv[k] # 0
                      /\ ClaimedBefore(row_inv, k) # {}
                      /\ ClaimedBefore(low, k) = ClaimedBefore(row_inv, k)
                      /\ low[k] # 0

Perms(n) == {f \in [1..n -> 1..n] : \A i, j \in 1..n : f[i] = f[j] => i = j}
Permute(seq, f) == [i \in 1..Len(seq) |-> seq[f[i]]]

\* No PO item has two unclaimed invoice items tied at its top score with
\* that score at or above the threshold.
TieFree ==
    \A k \in 1..Len(PoItems) :
        Reaches(k) => Cardinality(TopOf(k)) = 1

\* C5, as claimed: every permutation of the invoice items gives the same
\* set of matched PO items.
InvoiceOrderIndependent ==
    HasReturned =>
        \A f \in Perms(Len(InvItems)) :
            MatchedSet(Pairing(PoItems, Permute(InvItems, f), threshold, 1, {}))
                = MatchedSet(SubSeq(row_inv, 1, Len(PoItems)))

\* C5, amended: every permutation of the invoice items gives the same set
\* of matched PO items when no PO item has two unclaimed invoice items tied
\* at its top score with that score at or above the threshold.
InvoiceOrderIndependentWithoutTies ==
    (HasReturned /\ TieFree) =>
        \A f \in Perms(Len(InvItems)) :
            MatchedSet(Pairing(PoItems, Permute(InvItems, f), threshold, 1, {}))
                = MatchedSet(SubSeq(row_inv, 1, Len(PoItems)))

\* C5 witness: a run without such a tie over two invoice items or more,
\* with a matched and an unmatched PO item.
InvoiceOrderWitness ==
    /\ HasReturned
    /\ TieFree
    /\ Len(InvItems) >= 2
    /\ \E k1, k2 \in 1..Len(PoItems) : row_inv[k1] # 0 /\ row_inv[k2] = 0

\* C6: with both files uploaded, no outcome of the extraction ends the run
\* before the comparison is rendered.
NoExtractionOutcomeIsFatal == (po_file /\ inv_file) => pc # "crashed"

\* C7: the row of a paired PO item is Match exactly when the texts of qty,
\* unit_price and total are each equal on the two sides.
PairedRowMatchIffTextsEqual ==
    InCompare =>
        \A k \in 1..po_n :
            row_inv[k] # 0 =>
                rows[k].status =
                    IF \A key \in NumberKeys :
                          TextOf(PoItems[k], key) = TextOf(InvItems[row_inv[k]], key)
                    THEN "Match" ELSE "Mismatch"

\* C7 witness: a pair with different descriptions and a number against
\* its text is Match, beside a pair that "5.0" against "5.00" makes Mismatch.
PairedRowWitness ==
    /\ InCompare
    /\ \E k1, k2 \in 1..po_n :
          /\ row_inv[k1] # 0 /\ row_inv[k2] # 0
          /\ rows[k1].status = "Match"
          /\ rows[k1].po_value # rows[k1].inv_value
          /\ rows[k1].po_price # rows[k1].inv_price
          /\ rows[k2].status = "Mismatch"
          /\ Str(rows[k2].po_price) = <<"5", ".", "0">>
          /\ Str(rows[k2].inv_price) = <<"5", ".", "0", "0">>

\* The j-th smallest element of a set of numbers.
Nth(S, j) == CHOOSE x \in S : Cardinality({y \in S : y < x}) = j - 1

\* C8: the rows are one per PO item in PO order, then one per invoice item
\* never claimed in invoice order, each of these labelled unmatched with
\* empty PO fields, status Mismatch and score 0.0.
RowsArePoThenUnclaimedInvoice ==
    HasReturned =>
        LET P == Len(PoItems)
            left == (1..Len(InvItems)) \ {row_inv[k] : k \in 1..P}
        IN /\ Len(rows) = P + Cardinality(left)
           /\ \A k \in 1..P :
                 /\ rows[k].field = "Item"
                 /\ Str(rows[k].po_value) = TextOf(PoItems[k], "description")
                 /\ Str(rows[k].po_qty) = TextOf(PoItems[k], "qty")
                 /\ Str(rows[k].po_price) = TextOf(PoItems[k], "unit_price")
                 /\ Str(rows[k].po_total) = TextOf(PoItems[k], "total")
           /\ \A j \in 1..Cardinality(left) :
                 LET r == rows[P + j]
                     it == InvItems[Nth(left, j)]
                 IN /\ r.field = "Item (Unmatched Invoice)"
                    /\ Str(r.inv_value) = TextOf(it, "description")
                    /\ Str(r.inv_qty) = TextOf(it, "qty")
                    /\ Str(r.inv_price) = TextOf(it, "unit_price")
                    /\ Str(r.inv_total) = TextOf(it, "total")
                    /\ r.po_value = EmptyStr /\ r.po_qty = EmptyStr
                    /\ r.po_price = EmptyStr /\ r.po_total = EmptyStr
                    /\ r.status = "Mismatch"
                    /\ r.match_score = 0

\* C8 witness: an unmatched PO row, then the rows of two different invoice
\* items never claimed, in invoice order.
RowsOrderWitness ==
    /\ HasReturned
    /\ Len(PoItems) >= 1
    /\ Len(rows) = Len(PoItems) + 2
    /\ row_inv[Len(rows) - 1] = 1
    /\ row_inv[Len(rows)] = 2
    /\ rows[Len(rows)].inv_value # rows[Len(rows) - 1].inv_value

\* C9: each PO item, in order, takes the unclaimed invoice item of highest
\* score, the lowest index among equals, exactly when that score is at or
\* above the threshold; the claimed set is what the PO items took.
GreedyTakesLowestIndexOfTopScore ==
    InCompare =>
        /\ inv_used = {row_inv[k] : k \in 1..po_n} \ {0}
        /\ \A k \in 1..po_n :
              row_inv[k] = IF Reaches(k) THEN Lowest(TopOf(k)) ELSE 0

\* C9 witness: a PO item took the first of two invoice items tied at the
\* top, and a PO item whose best score is below the threshold took none.
GreedyWitness ==
    /\ InCompare
    /\ \E k1, k2 \in 1..po_n :
          /\ row_inv[k1] # 0
          /\ Cardinality(TopOf(k1)) >= 2
          /\ row_inv[k2] = 0
          /\ \E p \in ScoresOf(k2) : ScoreLess(ZeroScore, p[2])

\* C10: an invoice index is claimed by one PO item at most, every invoice
\* item is shown by exactly one row, and the rows number the PO items plus
\* the invoice items minus the pairs.
PairingOneToOneAndComplete ==
    HasReturned =>
        LET P == Len(PoItems)
            pairs == {k \in 1..P : row_inv[k] # 0}
        IN /\ \A k1, k2 \in pairs : row_inv[k1] = row_inv[k2] => k1 = k2
           /\ Len(row_inv) = Len(rows)
           /\ \A i \in 1..Len(InvItems) :
                 /\ Cardinality({r \in 1..Len(rows) : row_inv[r] = i}) = 1
                 /\ \A r \in 1..Len(rows) :
                       row_inv[r] = i =>
                          Str(rows[r].inv_value) = TextOf(InvItems[i], "description")
           /\ inv_used = {row_inv[k] : k \in pairs}
           /\ Len(rows) = P + Len(InvItems) - Cardinality(pairs)

\* C10 witness: two pairs and nothing left over.
PairingWitness ==
    /\ HasReturned
    /\ Len(PoItems) >= 2
    /\ Cardinality({row_inv[k] : k \in 1..Len(PoItems)} \ {0}) >= 2
    /\ Len(rows) = Len(PoItems)

====
